---------------------------- MODULE Spec2Model ----------------------------
(***************************************************************************)
(* A model of mpflow.py: the rectangular Grid, the PressureSolver object   *)
(* (constructor, property setters, update, step) and the free functions    *)
(* transmi, convecti and impose_diriBC.                                    *)
(*                                                                         *)
(* Numbers: numpy's float64 values are modelled as exact rationals         *)
(* <<numerator, denominator>> in lowest terms with a positive denominator. *)
(* Arrays are functions over 0-based index ranges, as in numpy; a 2-D      *)
(* array a is a[i][j].  A sparse matrix is modelled by its values          *)
(* mat[r][c]; which zeros are stored explicitly is not observable through  *)
(* any value the program reads.                                            *)
(*                                                                         *)
(* Exceptions: a call that raises leaves the name of the exception in      *)
(* ret.err and changes nothing else but what the code had already          *)
(* assigned before the raise.                                              *)
(***************************************************************************)
EXTENDS Integers, Sequences, FiniteSets, TLC

VARIABLES
    debug,     \* Python's __debug__: FALSE when the interpreter runs with -O
    grid,      \* the Grid object the caller built (immutable)
    solver,    \* the PressureSolver object, or NoSolver
    call,      \* the last call the caller made: operation and arguments
    ret,       \* what that call returned or raised
    ncalls     \* how many calls the caller has made

vars == <<debug, grid, solver, call, ret, ncalls>>

(***************************************************************************)
(* Bounds of the model.                                                    *)
(***************************************************************************)
MaxNx == 2
MaxNy == 2
MaxBC == 2
MaxCalls == 3

(***************************************************************************)
(* Rational arithmetic (float64 arithmetic without rounding).              *)
(***************************************************************************)
Abs(a) == IF a < 0 THEN -a ELSE a

RECURSIVE Gcd(_, _)
Gcd(a, b) == IF b = 0 THEN a ELSE Gcd(b, a % b)

RNorm(n, d) ==
    LET g == Gcd(Abs(n), Abs(d))
        s == IF d < 0 THEN -1 ELSE 1
    IN  <<(s * n) \div g, (s * d) \div g>>

R(n) == <<n, 1>>
RZero == R(0)
ROne == R(1)
\* sums and products cancel common factors before they multiply, so that no
\* intermediate value is larger than the result needs
RAdd(a, b) ==
    LET g == Gcd(a[2], b[2])
    IN  RNorm(a[1] * (b[2] \div g) + b[1] * (a[2] \div g), (a[2] \div g) * b[2])
RNeg(a) == <<-a[1], a[2]>>
RSub(a, b) == RAdd(a, RNeg(b))
RMul(a, b) ==
    LET g1 == Gcd(Abs(a[1]), b[2])
        g2 == Gcd(Abs(b[1]), a[2])
    IN  <<(a[1] \div g1) * (b[1] \div g2), (a[2] \div g2) * (b[2] \div g1)>>
RInv(a) == IF a[1] < 0 THEN <<-a[2], -a[1]>> ELSE <<a[2], a[1]>>
RDiv(a, b) == RMul(a, RInv(b))
RLe(a, b) == a[1] * b[2] <= b[1] * a[2]
RLt(a, b) == a[1] * b[2] < b[1] * a[2]
\* numpy.minimum(a, b) and numpy.maximum(a, b) on one element
minimum(a, b) == IF RLe(a, b) THEN a ELSE b
maximum(a, b) == IF RLe(a, b) THEN b ELSE a

\* f itself; comparing it makes TLC compute the array once instead of
\* recomputing an element every time it is read
Eager(f) == IF f = f THEN f ELSE f

RECURSIVE RSum(_, _, _)
\* sum of f[lo], ..., f[hi]
RSum(f, lo, hi) == IF lo > hi THEN RZero ELSE RAdd(f[lo], RSum(f, lo + 1, hi))

(***************************************************************************)
(* class Grid                                                              *)
(***************************************************************************)
Grid(nx, ny, lx, ly) ==
    [nx |-> nx, ny |-> ny, lx |-> R(lx), ly |-> R(ly),
     ncell |-> nx * ny,
     dx |-> RDiv(R(lx), R(nx)), dy |-> RDiv(R(ly), R(ny)),
     vol |-> RMul(RDiv(R(lx), R(nx)), RDiv(R(ly), R(ny)))]

Cells(g) == 0 .. (g.ncell - 1)
Rows(g) == 0 .. (g.ny - 1)
Cols(g) == 0 .. (g.nx - 1)

\* a[...].reshape(ny, nx) of a flat array, and the flat (row-major) view
reshape2(g, flat) == [i \in Rows(g) |-> [j \in Cols(g) |-> flat[i * g.nx + j]]]
ravel(g, a) == [c \in Cells(g) |-> a[c \div g.nx][c % g.nx]]

(***************************************************************************)
(* scipy.sparse.spdiags(data, diags, n, n): data[d][c] is the entry of     *)
(* column c on the diagonal of offset diags[d], i.e. mat[c - diags[d]][c]. *)
(* dia_matrix refuses an offset list with a repeated value.                *)
(***************************************************************************)
spdiags(data, diags, n) ==
    IF \E a, b \in DOMAIN diags : a # b /\ diags[a] = diags[b]
    THEN [err |-> "ValueError", mat |-> <<>>]
    ELSE [err |-> "none",
          mat |-> [r \in 0 .. (n - 1) |-> [c \in 0 .. (n - 1) |->
                     IF \E d \in DOMAIN diags : diags[d] = c - r
                     THEN data[CHOOSE d \in DOMAIN diags : diags[d] = c - r][c]
                     ELSE RZero]]]

(***************************************************************************)
(* transmi(grid, k): the face transmissibilities and the matrix.           *)
(***************************************************************************)
transmi_tx(g, k) ==
    LET ax == RDiv(RMul(R(2), g.dy), g.dx)
        kinv == [i \in Rows(g) |-> [j \in Cols(g) |-> RDiv(ROne, k[i][j])]]
    IN  [i \in Rows(g) |-> [j \in 0 .. g.nx |->
            IF j >= 1 /\ j <= g.nx - 1
            THEN RDiv(ax, RAdd(kinv[i][j - 1], kinv[i][j]))
            ELSE RZero]]

transmi_ty(g, k) ==
    LET ay == RDiv(RMul(R(2), g.dx), g.dy)
        kinv == [i \in Rows(g) |-> [j \in Cols(g) |-> RDiv(ROne, k[i][j])]]
    IN  [i \in 0 .. g.ny |-> [j \in Cols(g) |->
            IF i >= 1 /\ i <= g.ny - 1
            THEN RDiv(ay, RAdd(kinv[i - 1][j], kinv[i][j]))
            ELSE RZero]]

\* transmi_data with the west and east diagonals exchanged (data[d][c] read
\* as the entry of row c instead of column c)
transmi_data_swapped(g, tx, ty) ==
    LET nx == g.nx
        x1 == [c \in Cells(g) |-> tx[c \div nx][c % nx]]
        x2 == [c \in Cells(g) |-> tx[c \div nx][(c % nx) + 1]]
        y1 == [c \in Cells(g) |-> ty[c \div nx][c % nx]]
        y2 == [c \in Cells(g) |-> ty[(c \div nx) + 1][c % nx]]
    IN  << [c \in Cells(g) |-> RNeg(y2[c])],
           [c \in Cells(g) |-> RNeg(x1[c])],
           [c \in Cells(g) |-> RAdd(RAdd(RAdd(x1[c], x2[c]), y1[c]), y2[c])],
           [c \in Cells(g) |-> RNeg(x2[c])],
           [c \in Cells(g) |-> RNeg(y1[c])] >>

transmi_data(g, tx, ty) ==
    LET nx == g.nx
        x1 == [c \in Cells(g) |-> tx[c \div nx][c % nx]]
        x2 == [c \in Cells(g) |-> tx[c \div nx][(c % nx) + 1]]
        y1 == [c \in Cells(g) |-> ty[c \div nx][c % nx]]
        y2 == [c \in Cells(g) |-> ty[(c \div nx) + 1][c % nx]]
    IN  << [c \in Cells(g) |-> RNeg(y2[c])],
           [c \in Cells(g) |-> RNeg(x2[c])],
           [c \in Cells(g) |-> RAdd(RAdd(RAdd(x1[c], x2[c]), y1[c]), y2[c])],
           [c \in Cells(g) |-> RNeg(x1[c])],
           [c \in Cells(g) |-> RNeg(y1[c])] >>

stencil_diags(g) == << -g.nx, -1, 0, 1, g.nx >>

transmi(g, k) ==
    LET tx == Eager(transmi_tx(g, k))
        ty == Eager(transmi_ty(g, k))
        m == spdiags(transmi_data(g, tx, ty), stencil_diags(g), g.ncell)
    IN  [err |-> m.err, mat |-> m.mat, tx |-> tx, ty |-> ty]


(***************************************************************************)
(* convecti(grid, v).  v is [ndim, x, y]: ndim is the number of axes of    *)
(* v['x'] and v['y']; x[i][j] and y[i][j] are the values over the last two *)
(* axes (a third, leading axis has length 1).  The code indexes both       *)
(* arrays with three subscripts, which numpy refuses for a 2-D array.      *)
(***************************************************************************)
convecti_data(g, v) ==
    LET nx == g.nx
        xn == [i \in Rows(g) |-> [j \in 0 .. nx |-> minimum(v.x[i][j], RZero)]]
        yn == [i \in 0 .. g.ny |-> [j \in Cols(g) |-> minimum(v.y[i][j], RZero)]]
        xp == [i \in Rows(g) |-> [j \in 0 .. nx |-> maximum(v.x[i][j], RZero)]]
        yp == [i \in 0 .. g.ny |-> [j \in Cols(g) |-> maximum(v.y[i][j], RZero)]]
        x1 == [c \in Cells(g) |-> xn[c \div nx][c % nx]]
        y1 == [c \in Cells(g) |-> yn[c \div nx][c % nx]]
        x2 == [c \in Cells(g) |-> xp[c \div nx][(c % nx) + 1]]
        y2 == [c \in Cells(g) |-> yp[(c \div nx) + 1][c % nx]]
    IN  << [c \in Cells(g) |-> RNeg(y2[c])],
           [c \in Cells(g) |-> RNeg(x2[c])],
           [c \in Cells(g) |-> RSub(RAdd(RSub(x2[c], x1[c]), y2[c]), y1[c])],
           x1,
           y1 >>

convecti(g, v) ==
    IF v.ndim < 3
    THEN [err |-> "IndexError", mat |-> <<>>]
    ELSE spdiags(convecti_data(g, v), stencil_diags(g), g.ncell)

(***************************************************************************)
(* utils.csr_row_set_nz_to_val(mat, i, val): every stored entry of row i   *)
(* becomes val.  Every nonzero of a matrix is stored.                      *)
(***************************************************************************)
csr_row_set_nz_to_val(mat, i, val) ==
    [mat EXCEPT ![i] = [c \in DOMAIN mat[i] |->
                          IF mat[i][c] # RZero THEN val ELSE mat[i][c]]]

(***************************************************************************)
(* impose_diriBC(mat, q, diriBC): in place on mat and q; the result is the *)
(* pair the two objects hold when the loop ends.  diriBC is a sequence of  *)
(* pairs <<i, val>>.  eliminate_zeros() changes no value.                  *)
(***************************************************************************)
\* impose_one without the assignment q[i] = val
impose_one_keeps_q(sys, pin) ==
    LET i == pin[1]
        zeroed == csr_row_set_nz_to_val(sys.mat, i, RZero)
    IN  [mat |-> [zeroed EXCEPT ![i][i] = ROne], q |-> sys.q]

impose_one(sys, pin) ==
    LET i == pin[1]
        val == pin[2]
        zeroed == csr_row_set_nz_to_val(sys.mat, i, RZero)
    IN  [mat |-> [zeroed EXCEPT ![i][i] = ROne],
         q |-> [sys.q EXCEPT ![i] = val]]

RECURSIVE impose_loop(_, _, _)
impose_loop(sys, diriBC, n) ==
    IF n > Len(diriBC) THEN sys
    ELSE impose_loop(impose_one(sys, diriBC[n]), diriBC, n + 1)

impose_diriBC(mat, q, diriBC) == impose_loop([mat |-> mat, q |-> q], diriBC, 1)

(***************************************************************************)
(* scipy.sparse.linalg.spsolve(mat, q): the solution of mat x = q when mat *)
(* is non-singular (Gauss-Jordan elimination over the rationals); for a    *)
(* singular matrix spsolve warns and returns an array of NaN.              *)
(***************************************************************************)
NaN == <<0, 0>>

RECURSIVE GaussJordan(_, _, _)
GaussJordan(M, n, c) ==
    IF c = n THEN [ok |-> TRUE, M |-> M]
    ELSE LET cand == {r \in c .. (n - 1) : M[r][c] # RZero}
         IN  IF cand = {} THEN [ok |-> FALSE, M |-> M]
             ELSE LET r == CHOOSE r1 \in cand : \A r2 \in cand : r1 <= r2
                      S == [M EXCEPT ![c] = M[r], ![r] = M[c]]
                      prow == [j \in 0 .. n |-> RDiv(S[c][j], S[c][c])]
                      M2 == [i \in 0 .. (n - 1) |->
                               IF i = c THEN prow
                               ELSE IF S[i][c] = RZero THEN S[i]
                               ELSE [j \in 0 .. n |->
                                       RSub(S[i][j], RMul(S[i][c], prow[j]))]]
                  IN  GaussJordan(Eager(M2), n, c + 1)

spsolve(mat, q, n) ==
    LET aug == Eager([r \in 0 .. (n - 1) |-> [j \in 0 .. n |->
                   IF j < n THEN mat[r][j] ELSE q[r]]])
        res == GaussJordan(aug, n, 0)
    IN  IF res.ok THEN [r \in 0 .. (n - 1) |-> res.M[r][n]]
        ELSE [r \in 0 .. (n - 1) |-> NaN]


(***************************************************************************)
(* class PressureSolver.  The object is a record: k__ and diriBC__ are the *)
(* name-mangled attributes _PressureSolver__k and _PressureSolver__diriBC  *)
(* behind the two properties; q, mobi_fn, s, p and v are plain attributes; *)
(* dict_k and dict_diriBC are the entries 'k' and 'diriBC' of the          *)
(* instance __dict__, which update() can write and which the properties    *)
(* (data descriptors of the class) shadow on every read of self.k and      *)
(* self.diriBC.  None is <<>>, any other optional value x is <<x>>.        *)
(***************************************************************************)
None == <<>>
Some(x) == <<x>>

NoSolver ==
    [exists |-> FALSE, k__ |-> <<>>, q |-> <<>>, diriBC__ |-> None,
     mobi_fn |-> None, s |-> None, p |-> None, v |-> None,
     dict_k |-> None, dict_diriBC |-> None]

\* bool(a) of a 1-D numpy array: defined for one element only
array_truth(row) ==
    IF Cardinality(DOMAIN row) = 1 THEN (IF row[0] THEN "True" ELSE "False")
    ELSE "ValueError"

\* the builtin all(b) over a 2-D boolean array b: it iterates over the rows
\* of b and takes the truth value of each row, from row i on
RECURSIVE builtin_all(_, _)
builtin_all(b, i) ==
    IF i \notin DOMAIN b THEN "True"
    ELSE LET t == array_truth(b[i])
         IN  IF t = "True" THEN builtin_all(b, i + 1) ELSE t

\* k.setter: assert all(k > 0); the assert statement runs only if __debug__
k_setter(self, k, dbg) ==
    LET t == builtin_all([i \in DOMAIN k |-> [j \in DOMAIN k[i] |->
                             RLt(RZero, k[i][j])]], 0)
    IN  IF dbg /\ t = "ValueError" THEN [err |-> "ValueError", self |-> self]
        ELSE IF dbg /\ t = "False" THEN [err |-> "AssertionError", self |-> self]
        ELSE [err |-> "none", self |-> [self EXCEPT !.k__ = k]]

\* diriBC.setter: only None assigns
diriBC_setter(g, self, diriBC) ==
    IF diriBC = None
    THEN [self EXCEPT !.diriBC__ = Some(<< <<g.ncell \div 2, RZero>> >>)]
    ELSE self

\* self.k and self.diriBC as the properties return them; reading
\* self.diriBC raises AttributeError while diriBC__ was never assigned
get_k(self) == self.k__
has_diriBC(self) == self.diriBC__ # None
get_diriBC(self) == self.diriBC__[1]

PressureSolver_init(g, k, q, diriBC, mobi_fn, s, dbg) ==
    LET r == k_setter(NoSolver, k, dbg)
    IN  IF r.err # "none" THEN [err |-> r.err, self |-> NoSolver]
        ELSE [err |-> "none",
              self |-> [diriBC_setter(g, [r.self EXCEPT !.q = q], diriBC)
                          EXCEPT !.mobi_fn = mobi_fn, !.s = s,
                                 !.p = None, !.v = None, !.exists = TRUE]]

\* update(**params) with one named parameter: self.__dict__.update(params)
update(self, field, value) ==
    CASE field = "k" -> [self EXCEPT !.dict_k = Some(value)]
      [] field = "diriBC" -> [self EXCEPT !.dict_diriBC = Some(value)]
      [] field = "q" -> [self EXCEPT !.q = value]
      [] field = "mobi_fn" -> [self EXCEPT !.mobi_fn = value]
      [] field = "s" -> [self EXCEPT !.s = value]

\* the caller's mobility callables: (mw, mo) as functions of the saturation
mobi_call(name, s) ==
    IF name = "unit"
    THEN [mw |-> [c \in DOMAIN s |-> ROne], mo |-> [c \in DOMAIN s |-> ROne]]
    ELSE [mw |-> [c \in DOMAIN s |-> RMul(s[c], s[c])],
          mo |-> [c \in DOMAIN s |-> RMul(RSub(ROne, s[c]), RSub(ROne, s[c]))]]

\* step, lines 118-126: the permeability the system is assembled from
step_k(g, self) ==
    IF self.mobi_fn # None /\ self.s # None
    THEN LET m == mobi_call(self.mobi_fn[1], self.s[1])
             lam == reshape2(g, [c \in Cells(g) |-> RAdd(m.mw[c], m.mo[c])])
         IN  [i \in Rows(g) |-> [j \in Cols(g) |-> RMul(get_k(self)[i][j], lam[i][j])]]
    ELSE get_k(self)

\* step_system without the copy: q = self.q.ravel() is a view of self.q, and
\* the imposition writes through it
step_system_no_copy(self, mat) ==
    LET sys == impose_diriBC(mat, self.q, get_diriBC(self))
    IN  [self |-> [self EXCEPT !.q = sys.q], mat |-> sys.mat, q |-> sys.q]

\* step, lines 129-130: the right-hand side is a copy of self.q, so the
\* in-place imposition leaves the object as it was
step_system(self, mat) ==
    LET sys == impose_diriBC(mat, self.q, get_diriBC(self))
    IN  [self |-> self, mat |-> sys.mat, q |-> sys.q]

\* step_flux with the pressure difference taken the other way round
step_flux_reversed(g, p, tx, ty) ==
    [ndim |-> 2,
     x |-> [i \in Rows(g) |-> [j \in 0 .. g.nx |->
               IF j >= 1 /\ j <= g.nx - 1
               THEN RMul(RSub(p[i][j], p[i][j - 1]), tx[i][j]) ELSE RZero]],
     y |-> [i \in 0 .. g.ny |-> [j \in Cols(g) |->
               IF i >= 1 /\ i <= g.ny - 1
               THEN RMul(RSub(p[i][j], p[i - 1][j]), ty[i][j]) ELSE RZero]]]

\* step, lines 136-138: the face fluxes
step_flux(g, p, tx, ty) ==
    [ndim |-> 2,
     x |-> [i \in Rows(g) |-> [j \in 0 .. g.nx |->
               IF j >= 1 /\ j <= g.nx - 1
               THEN RMul(RSub(p[i][j - 1], p[i][j]), tx[i][j]) ELSE RZero]],
     y |-> [i \in 0 .. g.ny |-> [j \in Cols(g) |->
               IF i >= 1 /\ i <= g.ny - 1
               THEN RMul(RSub(p[i - 1][j], p[i][j]), ty[i][j]) ELSE RZero]]]

step(g, self) ==
    LET warned == ~(self.mobi_fn # None /\ self.s # None)
        t == transmi(g, Eager(step_k(g, self)))
    IN  IF t.err # "none" THEN [err |-> t.err, warned |-> warned, self |-> self]
        ELSE IF ~has_diriBC(self)
        THEN [err |-> "AttributeError", warned |-> warned, self |-> self]
        ELSE LET sys == step_system(self, t.mat)
                 p == Eager(reshape2(g, spsolve(sys.mat, sys.q, g.ncell)))
                 v == step_flux(g, p, t.tx, t.ty)
             IN  [err |-> "none", warned |-> warned,
                  self |-> [sys.self EXCEPT !.p = Some(p), !.v = Some(v)]]


(***************************************************************************)
(* The caller's inputs.                                                    *)
(***************************************************************************)
Extents == {<<1, 1>>, <<2, 1>>}
Dims == (1 .. MaxNx) \X (1 .. MaxNy)

const2(g, a) == [i \in Rows(g) |-> [j \in Cols(g) |-> R(a)]]
ramp2(g) == [i \in Rows(g) |-> [j \in Cols(g) |-> R(i * g.nx + j + 1)]]
one_off2(g, c, a, b) ==
    [i \in Rows(g) |-> [j \in Cols(g) |-> IF i * g.nx + j = c THEN R(b) ELSE R(a)]]

\* permeability fields handed to the solver: two uniform fields (one of
\* them negative), a field that is larger in cell 0 and, on a one-column
\* grid, fields with a single non-positive entry
SolverK(g) ==
    {const2(g, 1), const2(g, -1), one_off2(g, 0, 1, 2)}
    \cup (IF g.nx = 1 THEN {one_off2(g, c, 1, 0) : c \in Cells(g)} ELSE {})

\* permeability fields handed to transmi: strictly positive
PositiveK(g) ==
    {const2(g, 1), const2(g, 2), ramp2(g)}
    \cup {one_off2(g, c, 1, 2) : c \in Cells(g)}
    \cup {one_off2(g, c, 2, 1) : c \in Cells(g)}

zeros1(g) == [c \in Cells(g) |-> RZero]
ones1(g) == [c \in Cells(g) |-> ROne]
SolverQ(g) == {zeros1(g), ones1(g)}

\* boundary lists handed to the solver
SolverBC(g) ==
    { << <<0, ROne>> >>, << <<g.ncell \div 2, RZero>>, <<0, ROne>> >> }

MobiFns == {"quad"}
SolverS(g) == { [c \in Cells(g) |-> IF c % 2 = 0 THEN RZero ELSE <<1, 2>>] }

Opt(S) == {None} \cup {Some(x) : x \in S}

\* values handed to update: a positive and a negative permeability field,
\* a boundary list, a source term, a mobility function or None, a saturation
UpdateValues(g, field) ==
    CASE field = "k" -> {one_off2(g, 0, 1, 2), const2(g, -1)}
      [] field = "diriBC" -> {<< <<0, ROne>> >>}
      [] field = "q" -> SolverQ(g)
      [] field = "mobi_fn" -> Opt(MobiFns)
      [] field = "s" -> {Some(x) : x \in SolverS(g)}

Fields == {"k", "q", "diriBC", "mobi_fn", "s"}

\* arguments of impose_diriBC: a matrix with no zero entry, or the matrix
\* transmi builds; a right-hand side no pin value occurs in; every list of
\* at most MaxBC pins on the first, the middle and the last cell
ImposeSources(g) == {"dense"} \cup (IF g.nx >= 2 THEN {"transmi"} ELSE {})
ImposeMat(g, src) ==
    IF src = "dense"
    THEN [r \in Cells(g) |-> [c \in Cells(g) |-> R(r * g.ncell + c + 1)]]
    ELSE transmi(g, ramp2(g)).mat
ImposeQ(g) == [c \in Cells(g) |-> R(c + 2)]
PinVals == {RZero, ROne}
PinCells(g) == {0, g.ncell \div 2, g.ncell - 1}
Pins(g) == PinCells(g) \X PinVals
BCLists(g) == UNION {[1 .. n -> Pins(g)] : n \in 0 .. MaxBC}

\* flux fields handed to convecti: all zero, one face carrying +1 or -1, or
\* every face carrying +1 or -1 in alternation; as 2-D arrays (what step
\* stores) or with a leading axis of length 1
flux(g, fx, fy, a, b) ==
    [x |-> [i \in Rows(g) |-> [j \in 0 .. g.nx |->
               IF fx = <<i, j>> THEN R(a)
               ELSE IF (i + j) % 2 = 0 THEN R(b) ELSE R(-b)]],
     y |-> [i \in 0 .. g.ny |-> [j \in Cols(g) |->
               IF fy = <<i, j>> THEN R(a)
               ELSE IF (i + j) % 2 = 0 THEN R(-b) ELSE R(b)]]]
XFaces(g) == Rows(g) \X (0 .. g.nx)
YFaces(g) == (0 .. g.ny) \X Cols(g)
NoFace == <<-1, -1>>
FluxFields(g) ==
    {flux(g, NoFace, NoFace, 0, 0), flux(g, NoFace, NoFace, 0, 1)}
    \cup {flux(g, f, NoFace, a, 0) : f \in XFaces(g), a \in {-1, 1}}
    \cup {flux(g, NoFace, f, a, 0) : f \in YFaces(g), a \in {-1, 1}}
FluxArgs(g) == {[ndim |-> d, x |-> f.x, y |-> f.y] : d \in {2, 3}, f \in FluxFields(g)}

(***************************************************************************)
(* The solver's life: the caller builds a grid, constructs a solver on it  *)
(* and then calls update and step in any order.  call.prev is the call     *)
(* made before a step and call.before the object that step started from.   *)
(***************************************************************************)
NoCall == [op |-> "none"]
NoRet == [err |-> "none"]

Init ==
    /\ debug \in BOOLEAN
    /\ grid \in {Grid(d[1], d[2], 1, 1) : d \in Dims}
    /\ solver = NoSolver
    /\ call = NoCall
    /\ ret = NoRet
    /\ ncalls = 0

Construct(k, q, diriBC, mobi_fn, s) ==
    /\ ~solver.exists
    /\ ncalls < MaxCalls
    /\ LET r == PressureSolver_init(grid, k, q, diriBC, mobi_fn, s, debug)
       IN  /\ solver' = r.self
           /\ ret' = [err |-> r.err]
    /\ call' = [op |-> "init", k |-> k, q |-> q, diriBC |-> diriBC,
                mobi_fn |-> mobi_fn, s |-> s]
    /\ ncalls' = ncalls + 1
    /\ UNCHANGED <<debug, grid>>

Update(field, value) ==
    /\ solver.exists
    /\ ncalls < MaxCalls
    /\ solver' = update(solver, field, value)
    /\ ret' = [err |-> "none"]
    /\ call' = [op |-> "update", field |-> field, value |-> value]
    /\ ncalls' = ncalls + 1
    /\ UNCHANGED <<debug, grid>>

Step ==
    /\ solver.exists
    /\ ncalls < MaxCalls
    /\ LET r == step(grid, solver)
       IN  /\ solver' = r.self
           /\ ret' = [err |-> r.err, warned |-> r.warned]
    /\ call' = [op |-> "step", before |-> solver,
                prev |-> IF call.op = "step" THEN [op |-> "step"] ELSE call,
                prev_err |-> ret.err]
    /\ ncalls' = ncalls + 1
    /\ UNCHANGED <<debug, grid>>

DoConstruct ==
    \E k \in SolverK(grid), q \in SolverQ(grid), bc \in Opt(SolverBC(grid)),
       m \in Opt(MobiFns), s \in Opt(SolverS(grid)) : Construct(k, q, bc, m, s)

DoUpdate == \E f \in Fields : \E x \in UpdateValues(grid, f) : Update(f, x)

Next == DoConstruct \/ DoUpdate \/ Step

Spec == Init /\ [][Next]_vars

\* the same under the interpreter's default: assert statements run
InitDebug == Init /\ debug = TRUE
DebugSpec == InitDebug /\ [][Next]_vars

(***************************************************************************)
(* The free functions, called directly on the caller's arrays.  They keep  *)
(* no state between calls: what a call returns depends on its arguments    *)
(* only, so a run makes one call.                                          *)
(***************************************************************************)
InitFn ==
    /\ debug = TRUE
    /\ grid \in {Grid(d[1], d[2], e[1], e[2]) : d \in Dims, e \in Extents}
    /\ solver = NoSolver
    /\ call = NoCall
    /\ ret = NoRet
    /\ ncalls = 0

CallTransmi(k) ==
    /\ ncalls = 0
    /\ call' = [op |-> "transmi", k |-> k]
    /\ ret' = transmi(grid, k)
    /\ ncalls' = 1
    /\ UNCHANGED <<debug, grid, solver>>

CallImpose(src, q, diriBC) ==
    /\ ncalls = 0
    /\ LET sys == impose_diriBC(ImposeMat(grid, src), q, diriBC)
       IN  ret' = [err |-> "none", mat |-> sys.mat, q |-> sys.q]
    /\ call' = [op |-> "impose_diriBC", src |-> src, q |-> q, diriBC |-> diriBC]
    /\ ncalls' = 1
    /\ UNCHANGED <<debug, grid, solver>>

CallConvecti(v) ==
    /\ ncalls = 0
    /\ call' = [op |-> "convecti", v |-> v]
    /\ ret' = convecti(grid, v)
    /\ ncalls' = 1
    /\ UNCHANGED <<debug, grid, solver>>

DoTransmi == \E k \in PositiveK(grid) : CallTransmi(k)

DoImpose ==
    \E src \in ImposeSources(grid), bc \in BCLists(grid) :
        CallImpose(src, ImposeQ(grid), bc)

DoConvecti == \E v \in FluxArgs(grid) : CallConvecti(v)

NextFn == DoTransmi \/ DoImpose \/ DoConvecti

FnSpec == InitFn /\ [][NextFn]_vars


(***************************************************************************)
(* What the claims speak of.                                               *)
(***************************************************************************)
HasNonPositive(k) == \E i \in DOMAIN k : \E j \in DOMAIN k[i] : RLe(k[i][j], RZero)
IsUniform(k) == \A i \in DOMAIN k : \A j \in DOMAIN k[i] : k[i][j] = k[0][0]
CenterCell(g) == (g.ny \div 2) * g.nx + (g.nx \div 2)

\* the value of the last pair of list bc whose index is cell i
LastPin(bc, i) ==
    LET ns == {n \in 1 .. Len(bc) : bc[n][1] = i}
    IN  bc[CHOOSE n \in ns : \A m \in ns : m <= n][2]
Pinned(bc) == {bc[n][1] : n \in 1 .. Len(bc)}

\* what the caller reads as solver.<field>; <<>> where the read raises
read_attr(self, field) ==
    CASE field = "k" -> get_k(self)
      [] field = "diriBC" -> (IF has_diriBC(self) THEN get_diriBC(self) ELSE <<>>)
      [] field = "q" -> self.q
      [] field = "mobi_fn" -> self.mobi_fn
      [] field = "s" -> self.s

Inputs(self) == [self EXCEPT !.p = None, !.v = None]

StepDone == call.op = "step" /\ ret.err = "none"

\* C1: a solver constructed with a strictly positive permeability field and
\* a caller-supplied list L holds L as its boundary list, and a step() right
\* after the construction completes with the pressure of every cell listed
\* in L equal to its prescribed value.
C1_CallerListKept ==
    /\ (call.op = "init" /\ call.diriBC # None /\ ~HasNonPositive(call.k))
         => /\ solver.exists
            /\ read_attr(solver, "diriBC") = call.diriBC[1]
    /\ (/\ call.op = "step" /\ call.prev.op = "init"
        /\ call.prev.diriBC # None /\ ~HasNonPositive(call.prev.k))
         => /\ ret.err = "none"
            /\ \A c \in Pinned(call.prev.diriBC[1]) :
                 ravel(grid, solver.p[1])[c] = LastPin(call.prev.diriBC[1], c)

\* C2: after update(f = x) with a valid x (for k: every entry > 0) reading
\* the solver's f returns x, and a step() that follows update(k = x)
\* computes p and v from x.
C2_UpdateTakesEffect ==
    /\ (call.op = "update" /\ (call.field = "k" => ~HasNonPositive(call.value)))
         => read_attr(solver, call.field) = call.value
    /\ (/\ StepDone /\ call.prev.op = "update" /\ call.prev.field = "k"
        /\ ~HasNonPositive(call.prev.value))
         => LET r == step(grid, [call.before EXCEPT !.k__ = call.prev.value])
            IN  solver.p = r.self.p /\ solver.v = r.self.v

\* C3: a permeability field with an entry <= 0 handed to the constructor or
\* to update(k = ...) makes the call fail, and a field of shape (ny, nx)
\* with every entry > 0 is accepted without error.
C3_NonPositiveRejected ==
    /\ call.op = "init" => (ret.err # "none" <=> HasNonPositive(call.k))
    /\ (call.op = "update" /\ call.field = "k")
         => (ret.err # "none" <=> HasNonPositive(call.value))

\* the entry of row c, column d that C4 prescribes
C4_Entry(g, tx, ty, c, d) ==
    LET i == c \div g.nx
        j == c % g.nx
    IN  IF d = c
        THEN RAdd(RAdd(RAdd(tx[i][j], tx[i][j + 1]), ty[i][j]), ty[i + 1][j])
        ELSE IF d = c - 1 THEN RNeg(tx[i][j])
        ELSE IF d = c + 1 THEN RNeg(tx[i][j + 1])
        ELSE IF d = c - g.nx THEN RNeg(ty[i][j])
        ELSE IF d = c + g.nx THEN RNeg(ty[i + 1][j])
        ELSE RZero

C4_MatrixAsStated ==
    /\ ret.err = "none"
    /\ \A c, d \in Cells(grid) :
         /\ ret.mat[c][d] = C4_Entry(grid, ret.tx, ret.ty, c, d)
         /\ (d = c - 1 /\ c % grid.nx = 0) => ret.mat[c][d] = RZero
         /\ (d = c + 1 /\ d % grid.nx = 0) => ret.mat[c][d] = RZero
    /\ \A c \in Cells(grid) : RSum(ret.mat[c], 0, grid.ncell - 1) = RZero

C5_ImposeReference ==
    call.op = "impose_diriBC" =>
        \A i \in Cells(grid) :
            IF i \in Pinned(call.diriBC)
            THEN /\ \A c \in Cells(grid) :
                      ret.mat[i][c] = (IF c = i THEN ROne ELSE RZero)
                 /\ ret.q[i] = LastPin(call.diriBC, i)
            ELSE /\ ret.mat[i] = ImposeMat(grid, call.src)[i]
                 /\ ret.q[i] = call.q[i]

C5_Witness ==
    /\ call.op = "impose_diriBC"
    /\ call.src = "transmi"
    /\ Len(call.diriBC) = 2
    /\ call.diriBC[1][1] = call.diriBC[2][1]
    /\ call.diriBC[1][2] # call.diriBC[2][2]
    /\ ret.q[call.diriBC[2][1]] = call.diriBC[2][2]

\* C6: step() leaves q, k, the boundary list, s and mobi_fn (every attribute
\* but p and v) as they were, and a step() that follows a completed step()
\* with no update between them completes with the same p and v.
C6_StepFrame ==
    call.op = "step" =>
        /\ Inputs(solver) = Inputs(call.before)
        /\ (call.prev.op = "step" /\ call.prev_err = "none")
             => /\ ret.err = "none"
                /\ solver.p = call.before.p
                /\ solver.v = call.before.v

C6_Witness ==
    /\ StepDone
    /\ call.prev.op = "step" /\ call.prev_err = "none"
    /\ solver.mobi_fn # None /\ solver.s # None
    /\ \E n \in 1 .. Len(get_diriBC(solver)) :
         solver.q[get_diriBC(solver)[n][1]] # get_diriBC(solver)[n][2]
    /\ \E c \in Cells(grid) : ravel(grid, solver.p[1])[c] # RZero

\* C7: for a flux field as step() stores it (two 2-D arrays) convecti
\* returns, without error, a matrix whose diagonal entry for each cell is
\* x2 - x1 + y2 - y1.
C7_ConvectiOnStepFlux ==
    (call.op = "convecti" /\ call.v.ndim = 2) =>
        /\ ret.err = "none"
        /\ \A c \in Cells(grid) :
             LET i == c \div grid.nx
                 j == c % grid.nx
             IN  ret.mat[c][c] =
                   RSub(RAdd(RSub(maximum(call.v.x[i][j + 1], RZero),
                                  minimum(call.v.x[i][j], RZero)),
                             maximum(call.v.y[i + 1][j], RZero)),
                        minimum(call.v.y[i][j], RZero))

\* C8: with a uniform strictly positive permeability, a zero source term,
\* no mobility weighting and a single pin (c, val), supplied by the caller
\* or defaulted, step() completes with p = val in every cell and every face
\* flux zero.
C8_SinglePinConstant ==
    (/\ call.op = "step" /\ call.prev.op = "init"
     /\ IsUniform(call.prev.k) /\ ~HasNonPositive(call.prev.k)
     /\ call.prev.q = zeros1(grid)
     /\ call.prev.mobi_fn = None
     /\ (call.prev.diriBC = None \/ Len(call.prev.diriBC[1]) = 1))
    => LET val == IF call.prev.diriBC = None THEN RZero
                  ELSE call.prev.diriBC[1][1][2]
       IN  /\ ret.err = "none"
           /\ \A i \in Rows(grid) : \A j \in Cols(grid) : solver.p[1][i][j] = val
           /\ \A i \in Rows(grid) : \A j \in 0 .. grid.nx : solver.v[1].x[i][j] = RZero
           /\ \A i \in 0 .. grid.ny : \A j \in Cols(grid) : solver.v[1].y[i][j] = RZero

\* C9: a solver constructed with diriBC omitted (None) has as its boundary
\* list the single pair (c, 0.0) with c the cell in row floor(ny/2) and
\* column floor(nx/2).
C9_DefaultPinIsCenter ==
    (call.op = "init" /\ call.diriBC = None /\ solver.exists) =>
        read_attr(solver, "diriBC") = << <<CenterCell(grid), RZero>> >>

\* C10: after a step() that completed, the net outflow through the four
\* faces of every cell that is not in the boundary list equals the cell's
\* source term, and every face on the domain boundary carries zero flux.
C10_MassBalance ==
    StepDone =>
        LET v == solver.v[1]
        IN  /\ \A c \in Cells(grid) \ Pinned(get_diriBC(solver)) :
                 LET i == c \div grid.nx
                     j == c % grid.nx
                 IN  RSub(RAdd(RSub(v.x[i][j + 1], v.x[i][j]), v.y[i + 1][j]),
                          v.y[i][j]) = solver.q[c]
            /\ \A i \in Rows(grid) : v.x[i][0] = RZero /\ v.x[i][grid.nx] = RZero
            /\ \A j \in Cols(grid) : v.y[0][j] = RZero /\ v.y[grid.ny][j] = RZero

C10_Witness ==
    /\ StepDone
    /\ grid.nx >= 2 /\ grid.ny >= 2
    /\ ~IsUniform(solver.k__)
    /\ solver.q = ones1(grid)
    /\ solver.v[1].x[0][1] # RZero
    /\ solver.v[1].y[1][0] # RZero

=============================================================================
